---------------------------- MODULE Spec2Model ----------------------------
(***************************************************************************)
(* Model of process_dataframe (src/central.py), the wide-to-long           *)
(* normaliser of the indicator spreadsheet, together with the pandas       *)
(* operations it calls (duplicated/unique, rename, melt, to_numeric,       *)
(* dropna) and the streamlit messages it emits (st.error + st.stop,        *)
(* st.warning); of the round trip of its result through the wide form;    *)
(* and of the password gate of the pages (check_password in src/central.py *)
(* and src/pages/2_province.py) with the province page behind it.          *)
(*                                                                         *)
(* Text is modelled as a sequence of characters.  TLA+ strings are ASCII,  *)
(* so every Chinese character is written as one token in pinyin:           *)
(*   <<"biao","dan">> = 表单, <<"zhi","biao","ming","cheng">> = 指标名称,  *)
(*   <<"dan","wei">> = 单位, <<"nian">> = 年, <<"shu","zhi">> = 数值.       *)
(* Record fields of a long-form row carry the pinyin of the column names:  *)
(*   biaodan = 表单, zhibiao = 指标名称, danwei = 单位, nianfen = 年份,     *)
(*   shuzhi = 数值, biaoqian = 标签.                                        *)
(***************************************************************************)
EXTENDS Integers, Sequences, FiniteSets, TLC

VARIABLES
    df_raw,                 \* the argument: [columns, data], data a sequence of rows
    pc,                     \* position inside process_dataframe
    df,                     \* the working copy (line 55), columns renamed by line 73
    missing_cols,           \* line 59
    duplicates,             \* line 65
    cleaned_colnames_map,   \* line 72, as the sequence of its (col, year) items
    df_long,                \* line 77 onwards
    original_values,        \* line 85
    messages,               \* what st.error / st.warning have shown, in order
    outcome,                \* "running", "returned", "stopped" (st.stop) or "raised"
    round,                  \* which call of process_dataframe this is: 1, or a call
                            \* on the re-exported table
    first_long,             \* the table the first call returned
    session_state,          \* st.session_state: a function from its keys to their values
    secrets,                \* st.secrets, likewise
    page,                   \* the script of the current run: "main", "central", "province"
    run_pc,                 \* position of the current run, "idle" between runs
    submitted,              \* what st.form_submit_button returns in the current run
    run_outcome,            \* how the last run ended
    shown,                  \* what the current run has put on the page, in order
    data_file,              \* data/data_province.xlsx: whether it exists, and its rows
    geojson,                \* get_china_geojson() under st.cache_data
    df_province,            \* df of pages/2_province.py
    df_filtered,            \* pages/2_province.py line 105
    df_ranked               \* pages/2_province.py line 118, Unbound before that

roundtrip == <<round, first_long>>

session == <<session_state, secrets, page, run_pc, submitted, run_outcome, shown,
             data_file, geojson, df_province, df_filtered, df_ranked>>

vars == <<df_raw, pc, df, missing_cols, duplicates, cleaned_colnames_map,
          df_long, original_values, messages, outcome, roundtrip, session>>

---------------------------------------------------------------------------
(* Bounds of the enumerated inputs *)

MaxRows == 2

MaxCols == 3

(* failed_rows.head(5) and len(failed_rows) > 5, lines 101 and 107 *)
HeadLimit == 5

---------------------------------------------------------------------------
(* Generic sequence helpers *)

Range(s) == {s[i] : i \in 1..Len(s)}

RECURSIVE Concat(_)
Concat(ss) == IF ss = <<>> THEN <<>> ELSE Head(ss) \o Concat(Tail(ss))

(* boolean-mask indexing: the positions, in order, where mask is TRUE *)
Where(mask) == SelectSeq([i \in 1..Len(mask) |-> i], LAMBDA i : mask[i])

(* pandas unique(): first occurrences, in order of appearance *)
RECURSIVE Unique(_)
Unique(s) ==
    IF s = <<>> THEN <<>>
    ELSE LET rest == Unique(SubSeq(s, 1, Len(s) - 1))
         IN  IF s[Len(s)] \in Range(rest) THEN rest ELSE Append(rest, s[Len(s)])

(* s[:n] *)
Take(s, n) == SubSeq(s, 1, IF Len(s) < n THEN Len(s) ELSE n)

---------------------------------------------------------------------------
(* Cells.  A cell of a DataFrame is missing (NaN), a number or a string.  *)
(* A number is a decimal: sign, integer part and fractional digits         *)
(* (trailing zeros dropped), so 6.0 is Num(6, <<>>) and 8.1 is            *)
(* Num(8, <<"1">>).                                                       *)

NaN == [kind |-> "nan", neg |-> FALSE, int |-> 0, frac |-> <<>>, text |-> <<>>]

Num(i, f) == [kind |-> "num", neg |-> FALSE, int |-> i, frac |-> f, text |-> <<>>]

Str(t) == [kind |-> "str", neg |-> FALSE, int |-> 0, frac |-> <<>>, text |-> t]

(* Series.notna() / Series.isna() on one cell *)
notna(c) == c.kind # "nan"

isna(c) == c.kind = "nan"

Digits == {"0", "1", "2", "3", "4", "5", "6", "7", "8", "9"}

IsDigit(ch) == ch \in Digits

DigitVal(ch) ==
    CASE ch = "0" -> 0 [] ch = "1" -> 1 [] ch = "2" -> 2 [] ch = "3" -> 3
      [] ch = "4" -> 4 [] ch = "5" -> 5 [] ch = "6" -> 6 [] ch = "7" -> 7
      [] ch = "8" -> 8 [] ch = "9" -> 9

(* int(s) of a non-empty string of digits *)
RECURSIVE ParseInt(_)
ParseInt(s) ==
    IF s = <<>> THEN 0
    ELSE ParseInt(SubSeq(s, 1, Len(s) - 1)) * 10 + DigitVal(s[Len(s)])

(* the digits of the label without its last character, as str(col)[:-1]   *)
(* would strip a trailing 年                                               *)
StripNonDigits_DropLast(s) == SelectSeq(SubSeq(s, 1, Len(s) - 1), IsDigit)

(* re.sub(r'\D', '', str(col)), line 72 *)
StripNonDigits(s) == SelectSeq(s, IsDigit)

IsSpace(ch) == ch = " "

RECURSIVE LStrip(_)
LStrip(s) == IF s # <<>> /\ IsSpace(Head(s)) THEN LStrip(Tail(s)) ELSE s

RECURSIVE RStrip(_)
RStrip(s) ==
    IF s # <<>> /\ IsSpace(s[Len(s)]) THEN RStrip(SubSeq(s, 1, Len(s) - 1)) ELSE s

RECURSIVE DropTrailingZeros(_)
DropTrailingZeros(s) ==
    IF s # <<>> /\ s[Len(s)] = "0" THEN DropTrailingZeros(SubSeq(s, 1, Len(s) - 1))
    ELSE s

AllDigits(s) == \A i \in 1..Len(s) : IsDigit(s[i])

(* The float parser behind pd.to_numeric for a string: surrounding blanks  *)
(* are skipped, then an optional sign, digits, and an optional "." with    *)
(* more digits, at least one digit in all.  Anything else, the empty and   *)
(* the all-blank string included, does not parse and gives NaN under       *)
(* errors='coerce'.                                                        *)
ParseFloat(t) ==
    LET s    == RStrip(LStrip(t))
        sgn  == s # <<>> /\ Head(s) \in {"+", "-"}
        body == IF sgn THEN Tail(s) ELSE s
        dots == Where([i \in 1..Len(body) |-> body[i] = "."])
        ip   == IF dots = <<>> THEN body ELSE SubSeq(body, 1, dots[1] - 1)
        fp   == IF dots = <<>> THEN <<>> ELSE SubSeq(body, dots[1] + 1, Len(body))
    IN  IF /\ Len(dots) <= 1
           /\ AllDigits(ip) /\ AllDigits(fp)
           /\ Len(ip) + Len(fp) > 0
        THEN [kind |-> "num", neg |-> sgn /\ Head(s) = "-", int |-> ParseInt(ip),
              frac |-> DropTrailingZeros(fp), text |-> <<>>]
        ELSE NaN

(* pd.to_numeric(x, errors='coerce') on one cell, line 88 *)
to_numeric(c) ==
    CASE c.kind = "nan" -> NaN
      [] c.kind = "num" -> c
      [] c.kind = "str" -> ParseFloat(c.text)

---------------------------------------------------------------------------
(* Column labels.  A label of the raw table is text; line 73 renames the   *)
(* year-like ones to Python ints, so a label of the working copy is either *)
(* text or an integer.                                                     *)

TextLabel(t) == [isint |-> FALSE, n |-> 0, t |-> t]

IntLabel(n) == [isint |-> TRUE, n |-> n, t |-> <<>>]

COL_BIAODAN == <<"biao", "dan">>

COL_ZHIBIAO == <<"zhi", "biao", "ming", "cheng">>

COL_DANWEI == <<"dan", "wei">>

(* REQUIRED_COLS, line 58 *)
REQUIRED_COLS == <<COL_BIAODAN, COL_ZHIBIAO, COL_DANWEI>>

(* value_name='数值' of the melt call, line 77 *)
VALUE_NAME == <<"shu", "zhi">>

---------------------------------------------------------------------------
(* The pandas operations process_dataframe calls.  A frame is              *)
(* [columns |-> sequence of labels, data |-> sequence of rows], a row the  *)
(* sequence of its cells in column order.                                  *)

(* empty looking at the columns alone *)
empty_ColumnsOnly(frame) == Len(frame.columns) = 0

(* DataFrame.empty: any axis of length 0 *)
empty(frame) == Len(frame.columns) = 0 \/ Len(frame.data) = 0

(* Index.get_indexer_for([label]): every position carrying the label *)
ColumnPositions(frame, label) ==
    Where([i \in 1..Len(frame.columns) |-> frame.columns[i] = label])

(* frame[col] for a required column, as the sequence of its cells *)
Series(frame, col) ==
    LET p == ColumnPositions(frame, TextLabel(col))[1]
    IN  [r \in 1..Len(frame.data) |-> frame.data[r][p]]

(* MissingCols stopping at the first missing column *)
MissingCols_FirstOnly(frame) ==
    Take(SelectSeq(REQUIRED_COLS,
                   LAMBDA col : TextLabel(col) \notin Range(frame.columns)), 1)

(* line 59 *)
MissingCols(frame) ==
    SelectSeq(REQUIRED_COLS, LAMBDA col : TextLabel(col) \notin Range(frame.columns))

(* Series.duplicated(): TRUE at every occurrence after the first; missing  *)
(* values count as equal to each other                                     *)
duplicated(series) ==
    [i \in 1..Len(series) |-> \E j \in 1..(i - 1) : series[j] = series[i]]

(* line 65: df['指标名称'][df['指标名称'].duplicated()].unique() *)
Duplicates(frame) ==
    LET names == Series(frame, COL_ZHIBIAO)
        mask  == duplicated(names)
        kept  == Where(mask)
    IN  Unique([k \in 1..Len(kept) |-> names[kept[k]]])

(* ', '.join(duplicates), line 67: str.join raises TypeError on an item   *)
(* that is not a str                                                       *)
JoinRaises(items) == \E i \in 1..Len(items) : items[i].kind # "str"

(* line 71 *)
ValueVars(frame) ==
    SelectSeq(frame.columns, LAMBDA c : c.t \notin Range(REQUIRED_COLS))

(* line 72: the items of the dict, in insertion order; a label without a  *)
(* digit gets no item                                                      *)
CleanedColnamesMap(frame) ==
    LET vv   == Unique(ValueVars(frame))
        keep == SelectSeq(vv, LAMBDA c : StripNonDigits(c.t) # <<>>)
    IN  [i \in 1..Len(keep) |->
            [col |-> keep[i], year |-> ParseInt(StripNonDigits(keep[i].t))]]

(* Rename leaving a column alone when its year is already taken by a     *)
(* column to its left                                                      *)
Rename_SkipTaken(frame, map) ==
    LET year(i) == map[CHOOSE k \in 1..Len(map) : map[k].col = frame.columns[i]].year
        inmap(i) == \E k \in 1..Len(map) : map[k].col = frame.columns[i]
    IN  [frame EXCEPT !.columns =
            [i \in 1..Len(frame.columns) |->
                IF inmap(i) /\ ~\E j \in 1..(i - 1) : inmap(j) /\ year(j) = year(i)
                THEN IntLabel(year(i))
                ELSE frame.columns[i]]]

(* line 73: df.rename(columns=cleaned_colnames_map) *)
Rename(frame, map) ==
    [frame EXCEPT !.columns =
        [i \in 1..Len(frame.columns) |->
            IF \E k \in 1..Len(map) : map[k].col = frame.columns[i]
            THEN IntLabel(map[CHOOSE k \in 1..Len(map) :
                                 map[k].col = frame.columns[i]].year)
            ELSE frame.columns[i]]]

(* line 76: cleaned_colnames_map.values() *)
ValueVarsCleaned(map) == [k \in 1..Len(map) |-> IntLabel(map[k].year)]

(* melt raises ValueError when value_name is already a column label        *)
(* (pandas 2.x; pandas 1.x only warns)                                     *)
MeltNameClash(frame) == TextLabel(VALUE_NAME) \in Range(frame.columns)

(* Melt taking one column for each label of value_vars, the first *)
Melt_FirstPerLabel(frame, id_vars, value_vars) ==
    LET vals == [k \in 1..Len(Unique(value_vars)) |->
                    ColumnPositions(frame, Unique(value_vars)[k])[1]]
        n    == Len(frame.data)
    IN  Concat([k \in 1..Len(vals) |->
            [r \in 1..n |->
                [biaodan |-> Series(frame, COL_BIAODAN)[r],
                 zhibiao |-> Series(frame, COL_ZHIBIAO)[r],
                 danwei  |-> Series(frame, COL_DANWEI)[r],
                 nianfen |-> frame.columns[vals[k]].n,
                 shuzhi  |-> frame.data[r][vals[k]]]]])

(* line 77: df.melt(id_vars, value_vars, var_name='年份', value_name='数值'). *)
(* melt keeps the columns at unique(get_indexer_for(id_vars + value_vars)), *)
(* pops the id columns and stacks what is left column by column, the id    *)
(* cells tiled and the column label repeated.                              *)
Melt(frame, id_vars, value_vars) ==
    LET labels == [i \in 1..Len(id_vars) |-> TextLabel(id_vars[i])] \o value_vars
        idx    == Concat([i \in 1..Len(labels) |-> ColumnPositions(frame, labels[i])])
        kept   == Unique(idx)
        ids    == {TextLabel(id_vars[i]) : i \in 1..Len(id_vars)}
        vals   == SelectSeq(kept, LAMBDA p : frame.columns[p] \notin ids)
        n      == Len(frame.data)
    IN  Concat([k \in 1..Len(vals) |->
            [r \in 1..n |->
                [biaodan |-> Series(frame, COL_BIAODAN)[r],
                 zhibiao |-> Series(frame, COL_ZHIBIAO)[r],
                 danwei  |-> Series(frame, COL_DANWEI)[r],
                 nianfen |-> frame.columns[vals[k]].n,
                 shuzhi  |-> frame.data[r][vals[k]]]]])

(* FailedMask without the test of the original value *)
FailedMask_NoNotna(orig, long) ==
    [i \in 1..Len(long) |-> isna(long[i].shuzhi)]

(* line 91: original_values.notna() & df_long['数值'].isna() *)
FailedMask(orig, long) ==
    [i \in 1..Len(long) |-> notna(orig[i]) /\ isna(long[i].shuzhi)]

(* FailedRows showing the coerced value instead of the raw one *)
FailedRows_Coerced(orig, long) ==
    LET kept == Where(FailedMask(orig, long))
    IN  [k \in 1..Len(kept) |->
            [zhibiao |-> long[kept[k]].zhibiao,
             nianfen |-> long[kept[k]].nianfen,
             yuanshizhi |-> long[kept[k]].shuzhi]]

(* lines 94-96: the failed rows with the raw value put back as 原始值 *)
FailedRows(orig, long) ==
    LET kept == Where(FailedMask(orig, long))
    IN  [k \in 1..Len(kept) |->
            [zhibiao |-> long[kept[k]].zhibiao,
             nianfen |-> long[kept[k]].nianfen,
             yuanshizhi |-> orig[kept[k]]]]

(* lines 99-110: one line for each of the first five failed rows, and the *)
(* number of the others                                                    *)
CoercionWarning(failed) ==
    [level |-> "warning", kind |-> "coercion",
     listed |-> Take(failed, HeadLimit),
     others |-> IF Len(failed) > HeadLimit THEN Len(failed) - HeadLimit ELSE 0]

(* DropNa that drops nothing *)
DropNa_KeepAll(long) == long

(* line 113: dropna(subset=['数值']) *)
DropNa(long) == SelectSeq(long, LAMBDA x : notna(x.shuzhi))

(* Series.round(2) on one number: the hundredths, the third fractional   *)
(* digit deciding the rounding                                             *)
Round2(c) ==
    LET d(i) == IF i <= Len(c.frac) THEN DigitVal(c.frac[i]) ELSE 0
        h    == c.int * 100 + d(1) * 10 + d(2) + (IF d(3) >= 5 THEN 1 ELSE 0)
        two  == <<ToString((h % 100) \div 10), ToString(h % 10)>>
    IN  [c EXCEPT !.int = h \div 100, !.frac = DropTrailingZeros(two)]

(* the decimal digits of a natural number *)
RECURSIVE IntToText(_)
IntToText(n) ==
    IF n < 10 THEN <<ToString(n)>>
    ELSE Append(IntToText(n \div 10), ToString(n % 10))

(* astype(str) of a float: "6.0", "8.1" *)
FloatToText(c) ==
    (IF c.neg THEN <<"-">> ELSE <<>>) \o IntToText(c.int) \o <<".">>
        \o (IF c.frac = <<>> THEN <<"0">> ELSE c.frac)

(* line 117, one row: round(2).astype(str) + ' ' + 单位.  A missing unit  *)
(* gives a missing label.                                                  *)
Label(x) ==
    IF isna(x.danwei) THEN NaN
    ELSE Str(FloatToText(Round2(x.shuzhi)) \o <<" ">> \o x.danwei.text)

(* str + number raises TypeError, line 117 *)
LabelRaises(long) == \E i \in 1..Len(long) : long[i].danwei.kind = "num"

---------------------------------------------------------------------------
(* The enumerated inputs: what pd.read_excel can hand to                   *)
(* process_dataframe.  Labels are distinct text; a table without columns   *)
(* has no rows.                                                            *)

(* "2021", "2019", "2020", "2021年", "年份说明", "数值" *)
ValueLabels ==
    << <<"2", "0", "2", "1">>,
       <<"2", "0", "1", "9">>,
       <<"2", "0", "2", "0">>,
       <<"2", "0", "2", "1", "nian">>,
       <<"nian", "fen", "shuo", "ming">>,
       <<"shu", "zhi">> >>

(* the elements of s at the positions in S, in order *)
Pick(s, S) ==
    LET at == SelectSeq([i \in 1..Len(s) |-> i], LAMBDA i : i \in S)
    IN  [k \in 1..Len(at) |-> s[at[k]]]

AllRequired == 1..Len(REQUIRED_COLS)

Headers(R) ==
    {Pick(REQUIRED_COLS, R) \o Pick(ValueLabels, V) :
        V \in {W \in SUBSET (1..Len(ValueLabels)) : Cardinality(W) <= MaxCols}}

(* identifier cells of a row: 表单, 指标名称, 单位 *)
RegularIds ==
    { <<Str(<<"A">>), Str(<<"M", "1">>), Str(<<"%">>)>>,
      <<Str(<<"A">>), Str(<<"M", "2">>), Str(<<"%">>)>> }

(* a row whose identifier cells are empty, a row whose indicator name is  *)
(* a number                                                                *)
IrregularIds ==
    { <<NaN,          NaN,          NaN>>,
      <<Str(<<"B">>), Num(7, <<>>), Str(<<"wan", "ren">>)>> }

(* the value cells of a row are a window of this cycle *)
CellCycle ==
    << Num(6, <<>>), Str(<<"8", ".", "1">>), Str(<<"x">>), Str(<<"y", "1">>),
       Str(<<"z">>), Str(<<" ">>), NaN, Num(3, <<"5">>) >>

Offsets == {0, 2, 5}

RowKinds == [id : RegularIds, off : Offsets] \cup [id : IrregularIds, off : {0}]

CellAt(off, j) == CellCycle[((off + j - 1) % Len(CellCycle)) + 1]

(* the row of kind rk under a header: its identifier cells under the      *)
(* required columns that are present, its value cells under the others     *)
BuildRow(header, rk) ==
    LET vpos == Where([i \in 1..Len(header) |-> header[i] \notin Range(REQUIRED_COLS)])
        j(i) == CHOOSE k \in 1..Len(vpos) : vpos[k] = i
    IN  [i \in 1..Len(header) |->
            CASE header[i] = COL_BIAODAN -> rk.id[1]
              [] header[i] = COL_ZHIBIAO -> rk.id[2]
              [] header[i] = COL_DANWEI  -> rk.id[3]
              [] OTHER                   -> CellAt(rk.off, j(i))]

RowSeqs(S) == UNION {[1..n -> S] : n \in 0..MaxRows}

PlainRow == CHOOSE rk \in RowKinds : rk.id \in RegularIds /\ rk.off = 0

Table(header, kinds) ==
    [columns |-> header,
     data    |-> [r \in 1..Len(kinds) |-> BuildRow(header, kinds[r])]]

(* tables with all three required columns, rows of every kind *)
FullSchemaInputs ==
    {Table(h, ks) : h \in Headers(AllRequired), ks \in RowSeqs(RowKinds)}

(* tables lacking a required column: the function stops before it reads a *)
(* cell, so one row content stands for all                                 *)
DeficientInputs ==
    {Table(h, ks) : h \in UNION {Headers(R) : R \in (SUBSET AllRequired) \ {AllRequired}},
                    ks \in RowSeqs({PlainRow})}

Inputs == {t \in FullSchemaInputs \cup DeficientInputs :
              Len(t.columns) = 0 => Len(t.data) = 0}

---------------------------------------------------------------------------
(* process_dataframe, one action per numbered section of the function *)

NoFrame == [columns |-> <<>>, data |-> <<>>]

(* no name bound yet *)
Unbound == [bound |-> FALSE]

(* a mapping without keys: st.session_state of a new session *)
NoKeys == [k \in {} |-> TRUE]

(* mapping.get(key, default) *)
Get(mapping, key, default) == IF key \in DOMAIN mapping THEN mapping[key] ELSE default

(* mapping[key] = value *)
SetKey(mapping, key, value) ==
    [k \in DOMAIN mapping \cup {key} |-> IF k = key THEN value ELSE mapping[k]]

(* del mapping[key] *)
DelKey(mapping, key) == [k \in DOMAIN mapping \ {key} |-> mapping[k]]

(* a browser session before its first run *)
NoSession ==
    /\ session_state = NoKeys
    /\ page = "main"
    /\ run_pc = "idle"
    /\ submitted = FALSE
    /\ run_outcome = "none"
    /\ shown = <<>>
    /\ geojson = "uncached"
    /\ df_province = <<>>
    /\ df_filtered = <<>>
    /\ df_ranked = Unbound

Init ==
    /\ df_raw \in Inputs
    /\ pc = "check_empty"
    /\ df = NoFrame
    /\ missing_cols = <<>>
    /\ duplicates = <<>>
    /\ cleaned_colnames_map = <<>>
    /\ df_long = <<>>
    /\ original_values = <<>>
    /\ messages = <<>>
    /\ outcome = "running"
    /\ round = 1
    /\ first_long = <<>>
    /\ NoSession
    /\ secrets = NoKeys
    /\ data_file = [exists |-> FALSE]

(* st.error(...) followed by st.stop() *)
ErrorAndStop(msg) ==
    /\ messages' = Append(messages, msg)
    /\ outcome' = "stopped"
    /\ pc' = "done"

(* an exception leaves process_dataframe *)
Raise ==
    /\ outcome' = "raised"
    /\ pc' = "done"

(* lines 51-55 *)
CheckEmpty ==
    /\ pc = "check_empty"
    /\ IF empty(df_raw)
       THEN /\ ErrorAndStop([level |-> "error", kind |-> "empty"])
            /\ UNCHANGED df
       ELSE /\ df' = [df_raw EXCEPT !.columns =
                        [i \in 1..Len(df_raw.columns) |-> TextLabel(df_raw.columns[i])]]
            /\ pc' = "check_required"
            /\ UNCHANGED <<messages, outcome>>
    /\ UNCHANGED <<df_raw, missing_cols, duplicates, cleaned_colnames_map,
                   df_long, original_values>>
    /\ UNCHANGED <<roundtrip, session>>

(* lines 57-62 *)
CheckRequired ==
    /\ pc = "check_required"
    /\ missing_cols' = MissingCols(df)
    /\ IF missing_cols' # <<>>
       THEN ErrorAndStop([level |-> "error", kind |-> "missing_cols",
                          cols |-> missing_cols'])
       ELSE /\ pc' = "check_duplicates"
            /\ UNCHANGED <<messages, outcome>>
    /\ UNCHANGED <<df_raw, df, duplicates, cleaned_colnames_map, df_long,
                   original_values>>
    /\ UNCHANGED <<roundtrip, session>>

(* lines 64-67 *)
CheckDuplicates ==
    /\ pc = "check_duplicates"
    /\ duplicates' = Duplicates(df)
    /\ IF Len(duplicates') > 0
       THEN IF JoinRaises(duplicates')
            THEN Raise /\ UNCHANGED messages
            ELSE /\ messages' = Append(messages,
                        [level |-> "warning", kind |-> "duplicates",
                         names |-> duplicates'])
                 /\ pc' = "melt"
                 /\ UNCHANGED outcome
       ELSE /\ pc' = "melt"
            /\ UNCHANGED <<messages, outcome>>
    /\ UNCHANGED <<df_raw, df, missing_cols, cleaned_colnames_map, df_long,
                   original_values>>
    /\ UNCHANGED <<roundtrip, session>>

(* lines 69-77 *)
CleanAndMelt ==
    /\ pc = "melt"
    /\ cleaned_colnames_map' = CleanedColnamesMap(df)
    /\ df' = Rename(df, cleaned_colnames_map')
    /\ \E raises \in (IF MeltNameClash(df') THEN BOOLEAN ELSE {FALSE}) :
          IF raises
          THEN Raise /\ UNCHANGED df_long
          ELSE /\ df_long' = Melt(df', REQUIRED_COLS,
                                  ValueVarsCleaned(cleaned_colnames_map'))
               /\ pc' = "coerce"
               /\ UNCHANGED outcome
    /\ UNCHANGED <<df_raw, missing_cols, duplicates, original_values, messages>>
    /\ UNCHANGED <<roundtrip, session>>

(* lines 83-110 *)
Coerce ==
    /\ pc = "coerce"
    /\ original_values' = [i \in 1..Len(df_long) |-> df_long[i].shuzhi]
    /\ df_long' = [i \in 1..Len(df_long) |->
                      [df_long[i] EXCEPT !.shuzhi = to_numeric(@)]]
    /\ LET failed_rows == FailedRows(original_values', df_long')
       IN  messages' = IF Len(failed_rows) > 0
                       THEN Append(messages, CoercionWarning(failed_rows))
                       ELSE messages
    /\ pc' = "finish"
    /\ UNCHANGED <<df_raw, df, missing_cols, duplicates, cleaned_colnames_map,
                   outcome>>
    /\ UNCHANGED <<roundtrip, session>>

(* lines 112-119 *)
Finish ==
    /\ pc = "finish"
    /\ LET kept == DropNa(df_long)
       IN  IF LabelRaises(kept)
           THEN Raise /\ df_long' = kept
           ELSE /\ df_long' = [i \in 1..Len(kept) |->
                                 [biaodan  |-> kept[i].biaodan,
                                  zhibiao  |-> kept[i].zhibiao,
                                  danwei   |-> kept[i].danwei,
                                  nianfen  |-> kept[i].nianfen,
                                  shuzhi   |-> kept[i].shuzhi,
                                  biaoqian |-> Label(kept[i])]]
                /\ outcome' = "returned"
                /\ pc' = "done"
    /\ UNCHANGED <<df_raw, df, missing_cols, duplicates, cleaned_colnames_map,
                   original_values, messages>>
    /\ UNCHANGED <<roundtrip, session>>

Next ==
    \/ CheckEmpty
    \/ CheckRequired
    \/ CheckDuplicates
    \/ CleanAndMelt
    \/ Coerce
    \/ Finish

Spec == Init /\ [][Next]_vars

---------------------------------------------------------------------------
(* The round trip: the returned table is re-exported to wide form and      *)
(* process_dataframe is called on it.                                      *)

(* number of calls of process_dataframe in a round trip *)
MaxRounds == 2

Triple(x) == <<x.biaodan, x.zhibiao, x.danwei>>

(* every way of taking one element from each set of a sequence of sets *)
RECURSIVE Choices(_)
Choices(sets) ==
    IF sets = <<>> THEN {<<>>}
    ELSE {<<h>> \o t : h \in Head(sets), t \in Choices(Tail(sets))}

(* the wide forms of a long table: one row per identifier triple in order  *)
(* of appearance, one column per year in ascending order, labelled with    *)
(* the year; a cell holds the value of its (triple, year), nothing when    *)
(* there is none, and any one of them when there are several               *)
WideExports(long) ==
    LET n     == Len(long)
        ids   == Unique([i \in 1..n |-> Triple(long[i])])
        years == SortSeq(Unique([i \in 1..n |-> long[i].nianfen]),
                         LAMBDA a, b : a < b)
        nY    == Len(years)
        vals(t, y) == {long[i].shuzhi :
                          i \in {i \in 1..n : /\ Triple(long[i]) = ids[t]
                                              /\ long[i].nianfen = years[y]}}
        cell(k) == LET t == ((k - 1) \div nY) + 1
                       y == ((k - 1) % nY) + 1
                   IN  IF vals(t, y) = {} THEN {NaN} ELSE vals(t, y)
        fills == Choices([k \in 1..(Len(ids) * nY) |-> cell(k)])
    IN  {[columns |-> REQUIRED_COLS \o [y \in 1..nY |-> IntToText(years[y])],
          data    |-> [t \in 1..Len(ids) |->
                         ids[t] \o [y \in 1..nY |-> f[(t - 1) * nY + y]]]] :
            f \in fills}

(* the returned table goes through the wide form into the next call *)
ReExport ==
    /\ pc = "done"
    /\ outcome = "returned"
    /\ round < MaxRounds
    /\ round' = round + 1
    /\ first_long' = IF round = 1 THEN df_long ELSE first_long
    /\ df_raw' \in WideExports(df_long)
    /\ pc' = "check_empty"
    /\ df' = NoFrame
    /\ missing_cols' = <<>>
    /\ duplicates' = <<>>
    /\ cleaned_colnames_map' = <<>>
    /\ df_long' = <<>>
    /\ original_values' = <<>>
    /\ messages' = <<>>
    /\ outcome' = "running"
    /\ UNCHANGED session

NextRoundTrip ==
    \/ CheckEmpty
    \/ CheckRequired
    \/ CheckDuplicates
    \/ CleanAndMelt
    \/ Coerce
    \/ Finish
    \/ ReExport

SpecRoundTrip == Init /\ [][NextRoundTrip]_vars

---------------------------------------------------------------------------
(* The pages of the application in one browser session.  Every run        *)
(* executes the script of a page from its top; st.session_state and the    *)
(* st.cache_data results outlive the run, the names of the script do not.  *)

(* what a visitor can type into the password field *)
Passwords == {"", "guozi", "sasac"}

(* .streamlit/secrets.toml: a password, or no such key *)
SecretsFiles == {NoKeys} \cup {SetKey(NoKeys, "password", s) : s \in {"guozi", "sasac"}}

(* a password that passes whenever something was typed *)
Matches_NonEmpty(entered, configured) == entered # ""

(* st.session_state["password"] == st.secrets["password"],                *)
(* central.py line 140, 2_province.py line 62                              *)
Matches(entered, configured) == entered = configured

(* national_level_regions, 2_province.py line 117 *)
national_level_regions == {"quanguopingjun", "quanguozhongweishu"}

ProvinceRow(s, y, m, d, v) ==
    [laiyuan |-> s, nianfen |-> y, zhibiao |-> m, diqu |-> d, shuzhi |-> v]

(* data_province.xlsx as load_data combines its sheets: 数据来源 is the   *)
(* sheet name                                                              *)
ProvinceFiles ==
    { << ProvinceRow("guoziwei", 2022, "zichan", "beijing", 5),
         ProvinceRow("guoziwei", 2022, "zichan", "shanghai", 7),
         ProvinceRow("guoziwei", 2022, "zichan", "quanguopingjun", 6),
         ProvinceRow("guoziwei", 2021, "zichan", "taiwan", 1),
         ProvinceRow("caizheng", 2022, "lirun", "beijing", 2) >>,
      << ProvinceRow("guoziwei", 2022, "zichan", "quanguopingjun", 6),
         ProvinceRow("guoziwei", 2022, "zichan", "quanguozhongweishu", 4) >>,
      << ProvinceRow("guoziwei", 2022, "zichan", "beijing", 5),
         ProvinceRow("guoziwei", 2021, "zichan", "beijing", 3) >> }

InitSession ==
    /\ df_raw = NoFrame
    /\ pc = "not_called"
    /\ df = NoFrame
    /\ missing_cols = <<>>
    /\ duplicates = <<>>
    /\ cleaned_colnames_map = <<>>
    /\ df_long = <<>>
    /\ original_values = <<>>
    /\ messages = <<>>
    /\ outcome = "running"
    /\ round = 1
    /\ first_long = <<>>
    /\ NoSession
    /\ secrets \in SecretsFiles
    /\ data_file \in {[exists |-> FALSE]}
                       \cup {[exists |-> TRUE, rows |-> f] : f \in ProvinceFiles}

process == <<df_raw, pc, df, missing_cols, duplicates, cleaned_colnames_map,
             df_long, original_values, messages, outcome, roundtrip>>

(* a run of a script starts: its names are unbound, its page is blank *)
StartRun(p, button) ==
    /\ page' = p
    /\ submitted' = button
    /\ run_outcome' = "running"
    /\ shown' = <<>>
    /\ df_province' = <<>>
    /\ df_filtered' = <<>>
    /\ df_ranked' = Unbound

EndRun(how) ==
    /\ run_outcome' = how
    /\ run_pc' = "idle"

(* the visitor opens a page, or touches a widget of the page shown *)
OpenPage ==
    /\ run_pc = "idle"
    /\ \E p \in {"central", "province"} :
          /\ StartRun(p, FALSE)
          /\ run_pc' = "check_password"
    /\ UNCHANGED <<session_state, secrets, data_file, geojson, process>>

(* main.py: the landing page with its two links *)
OpenMain ==
    /\ run_pc = "idle"
    /\ page # "main"
    /\ page' = "main"
    /\ submitted' = FALSE
    /\ shown' = <<"yemian_lianjie">>
    /\ df_province' = <<>>
    /\ df_filtered' = <<>>
    /\ df_ranked' = Unbound
    /\ EndRun("rendered")
    /\ UNCHANGED <<session_state, secrets, data_file, geojson, process>>

(* the visitor fills in the form on the page and presses 确认 *)
SubmitPassword ==
    /\ run_pc = "idle"
    /\ run_outcome = "form"
    /\ \E typed \in Passwords :
          session_state' = SetKey(session_state, "password", typed)
    /\ StartRun(page, TRUE)
    /\ run_pc' = "check_password"
    /\ UNCHANGED <<secrets, data_file, geojson, process>>

(* check_password() and the if around the body:                            *)
(* central.py lines 127-157, 2_province.py lines 49-79                     *)
CheckPassword ==
    /\ run_pc = "check_password"
    /\ IF ~Get(session_state, "password_correct", FALSE)
       THEN IF submitted
            THEN IF "password" \notin DOMAIN secrets
                 THEN (* st.secrets["password"] raises *)
                      /\ EndRun("raised")
                      /\ UNCHANGED <<session_state, page, submitted, shown,
                                     df_province, df_filtered, df_ranked>>
                 ELSE IF Matches(session_state["password"], secrets["password"])
                      THEN (* st.rerun(): this run ends, the next begins *)
                           /\ session_state' =
                                 DelKey(SetKey(session_state, "password_correct", TRUE),
                                        "password")
                           /\ StartRun(page, FALSE)
                           /\ run_pc' = "check_password"
                      ELSE /\ shown' = Append(shown, "mima_bu_zhengque")
                           /\ EndRun("form")
                           /\ UNCHANGED <<session_state, page, submitted,
                                          df_province, df_filtered, df_ranked>>
            ELSE (* the form is drawn with the field's value under its key *)
                 /\ session_state' =
                       SetKey(session_state, "password",
                              Get(session_state, "password", ""))
                 /\ EndRun("form")
                 /\ UNCHANGED <<page, submitted, shown,
                                df_province, df_filtered, df_ranked>>
       ELSE /\ run_pc' = IF page = "central" THEN "central_body" ELSE "load"
            /\ UNCHANGED <<session_state, page, submitted, run_outcome, shown,
                           df_province, df_filtered, df_ranked>>
    /\ UNCHANGED <<secrets, data_file, geojson, process>>

(* central.py from line 158: the data is loaded, normalised by            *)
(* process_dataframe and drawn, and the run ends as process_dataframe does *)
CentralBody ==
    /\ run_pc = "central_body"
    /\ \E how \in {"rendered", "stopped", "raised"} : EndRun(how)
    /\ UNCHANGED <<session_state, secrets, page, submitted, shown, data_file,
                   geojson, df_province, df_filtered, df_ranked, process>>

(* 2_province.py lines 81-87: load_data, get_china_geojson, 台湾 left out *)
ProvinceLoad ==
    /\ run_pc = "load"
    /\ IF ~data_file.exists
       THEN /\ shown' = Append(shown, "wenjian_wei_zhaodao")
            /\ EndRun("stopped")
            /\ UNCHANGED <<geojson, df_province>>
       ELSE /\ df_province' = SelectSeq(data_file.rows, LAMBDA x : x.diqu # "taiwan")
            /\ \E fetched \in (IF geojson = "uncached" THEN {"features", "None"}
                               ELSE {geojson}) :
                  /\ geojson' = fetched
                  /\ shown' = IF geojson = "uncached" /\ fetched = "None"
                              THEN Append(shown, "wufa_jiazai_geojson")
                              ELSE shown
            /\ run_pc' = "heatmap"
            /\ UNCHANGED run_outcome
    /\ UNCHANGED <<session_state, secrets, page, submitted, data_file,
                   df_filtered, df_ranked, process>>

(* sort_values(by='数值', ascending=False).reset_index(drop=True) *)
SortDescending(rows) == SortSeq(rows, LAMBDA a, b : a.shuzhi > b.shuzhi)

(* 2_province.py lines 89-156: the three select boxes, the filter and     *)
(* either the warning or the ranking with its map and table                *)
ProvinceHeatmap ==
    /\ run_pc = "heatmap"
    /\ \E selected_source \in {x.laiyuan : x \in Range(df_province)} :
       \E selected_year \in {x.nianfen : x \in {x \in Range(df_province) :
                                                  x.laiyuan = selected_source}} :
       \E selected_metric \in {x.zhibiao : x \in Range(df_province)} :
          /\ df_filtered' = SelectSeq(df_province, LAMBDA x :
                               /\ x.laiyuan = selected_source
                               /\ x.nianfen = selected_year
                               /\ x.zhibiao = selected_metric)
          /\ IF df_filtered' = <<>> \/ geojson = "None"
             THEN /\ shown' = Append(shown, "wu_shuju_huo_ditu_shibai")
                  /\ UNCHANGED df_ranked
             ELSE /\ df_ranked' =
                        [bound |-> TRUE,
                         rows  |-> SortDescending(SelectSeq(df_filtered',
                                      LAMBDA x : x.diqu \notin national_level_regions))]
                  /\ shown' = Append(shown, "ditu_he_paiming")
    /\ run_pc' = "trend"
    /\ UNCHANGED <<session_state, secrets, page, submitted, run_outcome,
                   data_file, geojson, df_province, process>>

(* 2_province.py lines 157-221: the trend comparison; line 181 reads      *)
(* df_ranked, which raises NameError when the name is not bound            *)
ProvinceTrend ==
    /\ run_pc = "trend"
    /\ IF df_ranked.bound
       THEN /\ shown' = Append(shown, "qushi_duibi")
            /\ EndRun("rendered")
       ELSE /\ EndRun("raised")
            /\ UNCHANGED shown
    /\ UNCHANGED <<session_state, secrets, page, submitted, data_file,
                   geojson, df_province, df_filtered, df_ranked, process>>

NextSession ==
    \/ OpenPage
    \/ OpenMain
    \/ SubmitPassword
    \/ CheckPassword
    \/ CentralBody
    \/ ProvinceLoad
    \/ ProvinceHeatmap
    \/ ProvinceTrend

SpecSession == InitSession /\ [][NextSession]_vars

---------------------------------------------------------------------------
(* What the properties below speak of, read off the raw table itself and   *)
(* not off the function's intermediate values.                             *)

Done == pc = "done"

Returned == Done /\ outcome = "returned"

NRows == Len(df_raw.data)

HasRequired == \A i \in 1..Len(REQUIRED_COLS) : REQUIRED_COLS[i] \in Range(df_raw.columns)

(* a year column: not an identifier column, and a digit in its label *)
IsYearLabel(c) == c \notin Range(REQUIRED_COLS) /\ \E i \in 1..Len(c) : c[i] \in Digits

(* a column that is neither an identifier column nor a year column *)
IsOtherLabel(c) == c \notin Range(REQUIRED_COLS) /\ ~IsYearLabel(c)

YearColSeq == Where([p \in 1..Len(df_raw.columns) |-> IsYearLabel(df_raw.columns[p])])

YearCols == Range(YearColSeq)

(* the year each label of the enumerated tables stands for *)
ExpectedYear(c) ==
    CASE c = <<"2", "0", "1", "9">>         -> 2019
      [] c = <<"2", "0", "2", "0">>         -> 2020
      [] c = <<"2", "0", "2", "1">>         -> 2021
      [] c = <<"2", "0", "2", "1", "nian">> -> 2021
      [] OTHER                              -> -1

YearAt(p) == ExpectedYear(df_raw.columns[p])

(* the number each cell of the enumerated tables stands for, NaN if none *)
ExpectedNumber(c) ==
    CASE c.kind = "num"                 -> c
      [] c = Str(<<"8", ".", "1">>)     -> Num(8, <<"1">>)
      [] OTHER                          -> NaN

IsNumeric(c) == ExpectedNumber(c) # NaN

(* missing: the cell holds nothing at all *)
IsMissing(c) == c.kind = "nan"

(* blank: missing, or text that is empty or only white space *)
IsBlank(c) == IsMissing(c) \/ (c.kind = "str" /\ \A i \in 1..Len(c.text) : c.text[i] = " ")

Cells == {<<r, p>> : r \in 1..NRows, p \in YearCols}

Raw(c) == df_raw.data[c[1]][c[2]]

RawId(r, col) ==
    df_raw.data[r][CHOOSE p \in 1..Len(df_raw.columns) : df_raw.columns[p] = col]

(* long-form order: columns one after the other, the columns of one year  *)
(* together at the place of the first of them, rows top to bottom within a *)
(* column                                                                  *)
LongCols ==
    LET cols  == YearColSeq
        years == Unique([k \in 1..Len(cols) |-> YearAt(cols[k])])
    IN  Concat([k \in 1..Len(years) |->
                   SelectSeq(cols, LAMBDA p : YearAt(p) = years[k])])

LongCells ==
    LET cols == LongCols
        n    == NRows
    IN  Concat([k \in 1..Len(cols) |-> [r \in 1..n |-> <<r, cols[k]>>]])

(* a coercion failure as the function understands it: something is there *)
(* and it is no number                                                     *)
IsFailure(c) == ~IsMissing(Raw(c)) /\ ~IsNumeric(Raw(c))

FailedCells == SelectSeq(LongCells, IsFailure)

(* the report line a failed cell should get *)
Entry(c) ==
    [zhibiao |-> RawId(c[1], COL_ZHIBIAO), nianfen |-> YearAt(c[2]),
     yuanshizhi |-> Raw(c)]

CoercionMsgs == SelectSeq(messages, LAMBDA m : m.kind = "coercion")

Listed == IF CoercionMsgs = <<>> THEN <<>> ELSE CoercionMsgs[1].listed

Others == IF CoercionMsgs = <<>> THEN 0 ELSE CoercionMsgs[1].others

---------------------------------------------------------------------------
(* C1 as stated: every cell whose raw value is non-blank and fails numeric *)
(* parsing has its indicator name, year and raw value in the report,       *)
(* however many such cells there are.                                      *)
C1_EveryFailureListed ==
    Returned =>
        LET listed == Range(Listed)
        IN  \A c \in Cells :
                (~IsBlank(Raw(c)) /\ ~IsNumeric(Raw(c))) => Entry(c) \in listed

(* C1 amended: the report lists indicator name, year and raw value for the *)
(* first five coercion failures in long-form order, and only counts the    *)
(* others; there is one such warning when a cell failed and none when no   *)
(* cell did.                                                               *)
C1_FirstFiveListed ==
    Returned =>
        LET failed == FailedCells
            first  == Take(failed, HeadLimit)
        IN  /\ Len(CoercionMsgs) = (IF failed = <<>> THEN 0 ELSE 1)
            /\ Listed = [k \in 1..Len(first) |-> Entry(first[k])]
            /\ Others = Len(failed) - Len(first)

(* C1 witness: a returned run with more failures than the report lists *)
C1_Witness ==
    /\ Returned
    /\ Len(FailedCells) > HeadLimit
    /\ Len(Listed) = HeadLimit
    /\ Others > 0

---------------------------------------------------------------------------
(* Counting rows by their (indicator name, year) pair *)

Pair(c) == <<RawId(c[1], COL_ZHIBIAO), YearAt(c[2])>>

OutPairs == {<<df_long[i].zhibiao, df_long[i].nianfen>> : i \in 1..Len(df_long)}

OutCount(pr) ==
    Cardinality({i \in 1..Len(df_long) :
                    <<df_long[i].zhibiao, df_long[i].nianfen>> = pr})

NumericCount(pr) == Cardinality({c \in Cells : Pair(c) = pr /\ IsNumeric(Raw(c))})

NonBlankCount(pr) == Cardinality({c \in Cells : Pair(c) = pr /\ ~IsBlank(Raw(c))})

(* C2 as stated: a blank cell (missing, or text that is empty or only      *)
(* white space) is dropped from the output and no coercion failure is      *)
(* reported for it.                                                        *)
C2_BlankDroppedUnreported ==
    Returned =>
        LET listed == Range(Listed)
        IN  \A c \in Cells :
                IsBlank(Raw(c)) =>
                    /\ Entry(c) \notin listed
                    /\ OutCount(Pair(c)) <= NonBlankCount(Pair(c))

(* C2 amended: a missing cell is dropped from the output and is neither    *)
(* listed nor counted as a coercion failure; text that is only white space *)
(* is dropped too, but it is a coercion failure like any other text that   *)
(* is no number.                                                           *)
C2_MissingDroppedUnreported ==
    Returned =>
        /\ \A c \in Cells : IsBlank(Raw(c)) => OutCount(Pair(c)) = NumericCount(Pair(c))
        /\ \A k \in 1..Len(Listed) : ~IsMissing(Listed[k].yuanshizhi)
        /\ Len(Listed) + Others =
              Cardinality({c \in Cells : ~IsMissing(Raw(c)) /\ ~IsNumeric(Raw(c))})

(* C2 witness: a returned run over a table with a missing cell and a      *)
(* white-space cell, the latter listed in the report                       *)
C2_Witness ==
    /\ Returned
    /\ \E c \in Cells : IsMissing(Raw(c))
    /\ \E c \in Cells : /\ Raw(c) = Str(<<" ">>)
                        /\ Entry(c) \in Range(Listed)

---------------------------------------------------------------------------
(* C3 as stated: every listed failure names an (indicator, year) pair      *)
(* absent from the output, and every cell with a non-blank value whose     *)
(* pair is absent from the output is in the failure list; for all inputs.  *)
C3_FailureIffAbsent ==
    Returned =>
        LET out    == OutPairs
            listed == {<<Listed[k].zhibiao, Listed[k].nianfen>> : k \in 1..Len(Listed)}
        IN  /\ listed \cap out = {}
            /\ \A c \in Cells :
                  (~IsBlank(Raw(c)) /\ Pair(c) \notin out) => Pair(c) \in listed

(* no two cells of the year columns share their (indicator name, year)     *)
PairsDistinct == \A c, d \in Cells : Pair(c) = Pair(d) => c = d

(* C3 amended: when no two cells share an (indicator name, year) pair,     *)
(* every listed failure names a pair absent from the output, and every     *)
(* cell with a value present whose pair is absent from the output is a     *)
(* coercion failure: listed if among the first five in long-form order,    *)
(* counted among the others if not.                                        *)
C3_FailureIffAbsentDistinct ==
    (Returned /\ PairsDistinct) =>
        LET out    == OutPairs
            listed == {<<Listed[k].zhibiao, Listed[k].nianfen>> : k \in 1..Len(Listed)}
            failed == FailedCells
            first  == Range(Take(failed, HeadLimit))
        IN  /\ listed \cap out = {}
            /\ \A c \in Cells :
                  (~IsMissing(Raw(c)) /\ Pair(c) \notin out) =>
                      /\ c \in Range(failed)
                      /\ c \in first => Pair(c) \in listed
                      /\ c \notin first => Others >= 1

(* C3 witness: a returned run over distinct pairs with listed failures     *)
(* and a cell that reached the output                                      *)
C3_Witness ==
    /\ Returned
    /\ PairsDistinct
    /\ Len(Listed) >= 2
    /\ \E c \in Cells : Pair(c) \in OutPairs

---------------------------------------------------------------------------
(* C4: with N rows and M year columns the output has at most N * M rows,   *)
(* and exactly N * M if and only if no cell of the year columns is blank   *)
(* or non-numeric.                                                         *)
C4_RowCount ==
    Returned =>
        LET nm == NRows * Cardinality(YearCols)
        IN  /\ Len(df_long) <= nm
            /\ (Len(df_long) = nm) <=>
                  (\A c \in Cells : ~IsBlank(Raw(c)) /\ IsNumeric(Raw(c)))

(* C4 witness: a full output from two same-year columns, and the rows of   *)
(* it all there                                                            *)
C4_Witness ==
    /\ Returned
    /\ NRows >= 2
    /\ Cardinality(YearCols) >= 2
    /\ \E p, q \in YearCols : p # q /\ YearAt(p) = YearAt(q)
    /\ Len(df_long) = NRows * Cardinality(YearCols)

---------------------------------------------------------------------------
(* C5 as stated: every row of the returned table has a non-null category,  *)
(* indicator name, unit, year and value, whatever the identifier cells of  *)
(* the input.                                                              *)
C5_NoNullField ==
    Returned =>
        \A i \in 1..Len(df_long) :
            /\ notna(df_long[i].biaodan)
            /\ notna(df_long[i].zhibiao)
            /\ notna(df_long[i].danwei)
            /\ df_long[i].nianfen \in Nat
            /\ notna(df_long[i].shuzhi)

---------------------------------------------------------------------------
(* C6 as stated: with at least one row and the three required columns the  *)
(* function returns, whatever the indicator names, labels and cells.       *)
C6_AlwaysReturns ==
    (Done /\ NRows >= 1 /\ HasRequired) => outcome = "returned"

---------------------------------------------------------------------------
MissingRequired == {c \in Range(REQUIRED_COLS) : c \notin Range(df_raw.columns)}

(* C7: with at least one row and a required column missing the function   *)
(* stops with one error that names the missing columns and no others, and  *)
(* there is no output table.                                               *)
C7_SchemaError ==
    (Done /\ NRows >= 1 /\ ~HasRequired) =>
        /\ outcome = "stopped"
        /\ Len(messages) = 1
        /\ messages[1].level = "error"
        /\ messages[1].kind = "missing_cols"
        /\ Range(messages[1].cols) = MissingRequired
        /\ df_long = <<>>

(* C7 witness: a stopped run over a table with rows and two of the three  *)
(* required columns missing                                                *)
C7_Witness ==
    /\ Done
    /\ NRows >= 1
    /\ Cardinality(MissingRequired) = 2
    /\ outcome = "stopped"
    /\ YearCols # {}

---------------------------------------------------------------------------
(* C8: a table with no rows stops with the empty-table error and no output *)
(* table, before the required columns are looked at.                       *)
C8_EmptyTableError ==
    (Done /\ NRows = 0) =>
        /\ outcome = "stopped"
        /\ messages = <<[level |-> "error", kind |-> "empty"]>>
        /\ missing_cols = <<>>
        /\ df_long = <<>>

(* C8 witness: a stopped run over a table with columns, no rows and a     *)
(* required column missing                                                 *)
C8_Witness ==
    /\ Done
    /\ NRows = 0
    /\ Len(df_raw.columns) > 0
    /\ MissingRequired # {}
    /\ outcome = "stopped"

---------------------------------------------------------------------------
(* a long-form row as a whole: identifiers, year, value *)
RowKey(c) ==
    <<RawId(c[1], COL_BIAODAN), RawId(c[1], COL_ZHIBIAO), RawId(c[1], COL_DANWEI),
      YearAt(c[2]), ExpectedNumber(Raw(c))>>

OutKey(x) == <<x.biaodan, x.zhibiao, x.danwei, x.nianfen, x.shuzhi>>

SameYearColumns(c, d) == c[1] = d[1] /\ c[2] # d[2] /\ YearAt(c[2]) = YearAt(d[2])

(* C9: two columns of the same year are both kept: every numeric cell of   *)
(* such a column has its own row in the output, with the identifiers of    *)
(* its row, the common year and its own value, so a row with both cells    *)
(* numeric is there twice for that (indicator, year).                      *)
C9_SameYearColumnsKept ==
    Returned =>
        \A c \in Cells :
            (IsNumeric(Raw(c)) /\ \E d \in Cells : SameYearColumns(c, d)) =>
                Cardinality({i \in 1..Len(df_long) : OutKey(df_long[i]) = RowKey(c)})
                    = Cardinality({e \in Cells : RowKey(e) = RowKey(c)})

(* C9 witness: a returned run with a row whose two same-year cells are    *)
(* numeric and differ, each value in the output                            *)
C9_Witness ==
    /\ Returned
    /\ \E c, d \in Cells :
          /\ SameYearColumns(c, d)
          /\ IsNumeric(Raw(c)) /\ IsNumeric(Raw(d))
          /\ ExpectedNumber(Raw(c)) # ExpectedNumber(Raw(d))
          /\ \E i, j \in 1..Len(df_long) :
                /\ i # j
                /\ OutKey(df_long[i]) = RowKey(c)
                /\ OutKey(df_long[j]) = RowKey(d)

---------------------------------------------------------------------------
(* every repeated indicator name is text, so that the duplicate warning   *)
(* can be written                                                          *)
RepeatedNamesAreText ==
    \A r1, r2 \in 1..NRows :
        (r1 # r2 /\ RawId(r1, COL_ZHIBIAO) = RawId(r2, COL_ZHIBIAO)) =>
            RawId(r1, COL_ZHIBIAO).kind = "str"

(* C10 as stated: a column whose label has no digit is left out: no row of *)
(* the output and no reported failure comes from it, and it causes no      *)
(* error or warning; the other columns are value columns with the year of  *)
(* their digits.                                                           *)
C10_NoDigitColumnSilent ==
    (/\ Done /\ NRows >= 1 /\ HasRequired /\ RepeatedNamesAreText
     /\ \E p \in 1..Len(df_raw.columns) : IsOtherLabel(df_raw.columns[p])) =>
        /\ outcome = "returned"
        /\ \A k \in 1..Len(messages) : messages[k].level # "error"
        /\ Len(df_long) + Len(Listed) + Others
              = Cardinality({c \in Cells : ~IsMissing(Raw(c))})
        /\ {df_long[i].nianfen : i \in 1..Len(df_long)}
              \subseteq {YearAt(p) : p \in YearCols}

---------------------------------------------------------------------------
(* the indicator names that stand in more than one row of the raw table *)
RepeatedNames ==
    {RawId(r, COL_ZHIBIAO) :
        r \in {r \in 1..NRows : \E q \in 1..NRows :
                  q # r /\ RawId(q, COL_ZHIBIAO) = RawId(r, COL_ZHIBIAO)}}

DuplicateMsgs == SelectSeq(messages, LAMBDA m : m.kind = "duplicates")

(* C11 as stated: when every row has an indicator name and a name stands   *)
(* in more than one row, the function lists that name exactly once in its  *)
(* duplicate warning, goes on and returns, and every numeric cell of every *)
(* such row has its own row in the output: nothing is merged or removed.   *)
C11_RepeatedNameOnceRowsKept ==
    (/\ Done /\ HasRequired /\ RepeatedNames # {}
     /\ \A r \in 1..NRows : ~IsMissing(RawId(r, COL_ZHIBIAO))
     /\ VALUE_NAME \notin Range(df_raw.columns)) =>
        /\ outcome = "returned"
        /\ Len(DuplicateMsgs) = 1
        /\ LET names == DuplicateMsgs[1].names
           IN  /\ Range(names) = RepeatedNames
               /\ Len(names) = Cardinality(RepeatedNames)
        /\ \A c \in Cells :
              (IsNumeric(Raw(c)) /\ RawId(c[1], COL_ZHIBIAO) \in RepeatedNames) =>
                  Cardinality({i \in 1..Len(df_long) : OutKey(df_long[i]) = RowKey(c)})
                      = Cardinality({e \in Cells : RowKey(e) = RowKey(c)})

---------------------------------------------------------------------------
(* the rows of a long table as (category, indicator, unit, year, value) *)
RowSet(long) == {OutKey(long[i]) : i \in 1..Len(long)}

(* no (category, indicator, unit, year) of the table has two values *)
SingleValued(long) ==
    \A i, j \in 1..Len(long) :
        (Triple(long[i]) = Triple(long[j]) /\ long[i].nianfen = long[j].nianfen) =>
            long[i].shuzhi = long[j].shuzhi

(* C12 as stated: process_dataframe on the wide form of the table it       *)
(* returned returns the same set of (category, indicator, unit, year,      *)
(* value) rows as the first call.                                          *)
C12_RoundTripStable ==
    (round >= 2 /\ Done) =>
        /\ outcome = "returned"
        /\ RowSet(df_long) = RowSet(first_long)

(* C12 amended: when the first call returned at least one row and no       *)
(* (category, indicator, unit, year) with two different values, the call   *)
(* on the wide form returns the same set of rows.                          *)
C12_RoundTripStableSingleValued ==
    (round >= 2 /\ Done /\ first_long # <<>> /\ SingleValued(first_long)) =>
        /\ outcome = "returned"
        /\ RowSet(df_long) = RowSet(first_long)

(* C12 witness: a second call has returned the rows of the first, which    *)
(* had two identifier triples and two years and left a cell of the wide    *)
(* form without a value                                                    *)
C12_Witness ==
    /\ round = 2
    /\ Returned
    /\ SingleValued(first_long)
    /\ RowSet(df_long) = RowSet(first_long)
    /\ Cardinality({Triple(first_long[i]) : i \in 1..Len(first_long)}) >= 2
    /\ Cardinality({first_long[i].nianfen : i \in 1..Len(first_long)}) >= 2
    /\ Cardinality(RowSet(first_long))
          < Cardinality({Triple(first_long[i]) : i \in 1..Len(first_long)})
              * Cardinality({first_long[i].nianfen : i \in 1..Len(first_long)})

---------------------------------------------------------------------------
(* the session flag as check_password reads it *)
PasswordCorrect == Get(session_state, "password_correct", FALSE)

(* the run is inside the body behind "if check_password():" *)
InBody == run_pc \in {"central_body", "load", "heatmap", "trend"}

(* the run is the one of a submitted form, before check_password has run *)
Submitting == run_pc = "check_password" /\ submitted

(* the submitted password is the configured secret *)
SubmittedIsSecret ==
    /\ "password" \in DOMAIN secrets
    /\ "password" \in DOMAIN session_state
    /\ session_state["password"] = secrets["password"]

(* C13: on the central and the province page the body runs only while the *)
(* session flag password_correct is true; the flag becomes true only in    *)
(* the run of a submission whose password is the configured secret, the    *)
(* run of a wrong submission leaves it false, and once true it stays true. *)
C13_PasswordGate ==
    /\ [](InBody => PasswordCorrect)
    /\ [][/\ (~PasswordCorrect /\ PasswordCorrect') => (Submitting /\ SubmittedIsSecret)
          /\ (Submitting /\ ~PasswordCorrect /\ ~SubmittedIsSecret) => ~PasswordCorrect'
          /\ PasswordCorrect => PasswordCorrect']_vars

(* C13 witness: the province body is running in a session whose flag was   *)
(* set, the submitted password gone from the session state                 *)
C13_Witness ==
    /\ PasswordCorrect
    /\ page = "province"
    /\ run_pc = "trend"
    /\ "password" \notin DOMAIN session_state

(* C14 as stated: in an authenticated run of the province page the trend   *)
(* section finds df_ranked computed by the same run, and a run that showed *)
(* the no-data-or-map warning goes on to render the trend section.         *)
C14_TrendReadsComputedRanking ==
    (page = "province" /\ PasswordCorrect) =>
        /\ run_pc = "trend" => df_ranked.bound
        /\ (run_pc = "idle" /\ "wu_shuju_huo_ditu_shibai" \in Range(shown)) =>
              /\ run_outcome = "rendered"
              /\ "qushi_duibi" \in Range(shown)

===========================================================================
